---- MODULE Spec2Model ----
(***************************************************************************)
(* Metadata completion of a BIDS dataset (cis-bidsify).                    *)
(*                                                                         *)
(* intended_for_gen and complete_jsons of utils.py, and the per-datatype   *)
(* completion functions of complete_jsons.py, as state machines over a     *)
(* bounded dataset of imaging files and their JSON sidecars.               *)
(***************************************************************************)
EXTENDS Integers, Sequences, FiniteSets, TLC

VARIABLES
    layout,        \* the indexed files, in the order the index returns them
    disk,          \* the sidecar JSON of each file of layout (same position)
    ses,           \* the session argument ("None" when not given)
    overwrite,     \* the overwrite argument
    sidx,          \* the subject of subs the outer loop is at
    niftis,        \* the files layout.get returned (positions in layout)
    k,             \* the file of niftis the inner loop is at
    runNo,         \* 1 in the first run over the dataset, 2 in the second
    written,       \* the files whose sidecar this run wrote (json.dump)
    assigned,      \* per file the loop reached in this run, the keys it
                   \* assigned in data
    disk0,         \* the sidecars as they were when this run started
    entry,         \* the function that was called: "complete_jsons" of
                   \* utils.py, or "run" of complete_jsons.py
    fmap_nifti,    \* the field map intended_for_gen is called on (a position)
    intended_for,  \* what intended_for_gen returned
    pc,            \* the position of the program
    child,         \* the child process of a tool call: the lines it has still
                   \* to write, the lines in its stdout pipe, whether the
                   \* pipe's write end is closed, exited, exit status
    streamed,      \* the lines the caller wrote to its own stdout
    outcome,       \* how the tool call ended, and what the error carries
    inputs,        \* the arguments of the workflow and what they name on disk
    executed,      \* the stages of the workflow that ran, in order
    dirs,          \* the scratch and provenance directories that exist
    age,           \* the age the participants update selected
    tsv            \* the age column of the subject's row of participants.tsv

vars == <<layout, disk, ses, overwrite, sidx, niftis, k, runNo, written,
          assigned, disk0, entry, fmap_nifti, intended_for, pc,
          child, streamed, outcome, inputs, executed, dirs, age, tsv>>

\* the state of the tool calls and of the workflow around the completion
toolVars == <<child, streamed, outcome, inputs, executed, dirs, age, tsv>>

\* what a call of intended_for_gen alone leaves as it is
completeVars ==
    <<overwrite, sidx, k, runNo, written, assigned, disk0, entry, toolVars>>

\* what no step of a run changes
argVars ==
    <<layout, ses, overwrite, runNo, disk0, entry, fmap_nifti, intended_for, toolVars>>

-----------------------------------------------------------------------------
(* Bounds of the model. *)

MaxNiftis == 3      \* files in the list intended_for_gen is called on
MaxFiles == 2       \* files in the dataset complete_jsons is run on

None == "None"

\* a JSON null where a number is expected (data.get(...) is None)
JsonNull == -1

\* no tool call and no workflow is part of the run
NoTools ==
    /\ child = None /\ streamed = <<>> /\ outcome = None
    /\ inputs = None /\ executed = <<>> /\ dirs = {}
    /\ age = None /\ tsv = None

-----------------------------------------------------------------------------
(* Entities. A file's entities are a function from the entity keys present *)
(* in its name to their values (BIDSFile.get_entities()).                  *)

Opt(key, val) == IF val = None THEN <<>> ELSE (key :> val)

Entities(sub, sess, dtype, task, acq, dir, run, suffix) ==
    [subject |-> sub, datatype |-> dtype, suffix |-> suffix]
        @@ Opt("session", sess) @@ Opt("task", task)
        @@ Opt("acquisition", acq) @@ Opt("direction", dir)
        @@ Opt("run", run)

Has(ent, key) == key \in DOMAIN ent

\* The file name BIDS gives a file with these entities, as its parts in order.
Filename(ent) ==
    <<"sub-" \o ent["subject"]>>
    \o (IF Has(ent, "session") THEN <<"ses-" \o ent["session"]>> ELSE <<>>)
    \o (IF Has(ent, "task") THEN <<"task-" \o ent["task"]>> ELSE <<>>)
    \o (IF Has(ent, "acquisition") THEN <<"acq-" \o ent["acquisition"]>> ELSE <<>>)
    \o (IF Has(ent, "direction") THEN <<"dir-" \o ent["direction"]>> ELSE <<>>)
    \o (IF Has(ent, "run") THEN <<"run-" \o ent["run"]>> ELSE <<>>)
    \o <<ent["suffix"]>>


-----------------------------------------------------------------------------
(* Strings are compared part by part; the parts in ascending string order. *)

PartOrder ==
    <<"acq-dwi", "acq-func", "bold", "dir-AP", "dwi", "epi", "fmap", "func",
      "run-1", "run-2", "ses-1", "ses-2", "sub-01", "sub-02", "task-rest">>

PartRank(part) == CHOOSE i \in 1..Len(PartOrder) : PartOrder[i] = part

RECURSIVE StrLess(_, _)
StrLess(a, b) ==
    IF b = <<>> THEN FALSE
    ELSE IF a = <<>> THEN TRUE
    ELSE IF Head(a) = Head(b) THEN StrLess(Tail(a), Tail(b))
    ELSE PartRank(Head(a)) < PartRank(Head(b))

\* op.join('ses-{0}'.format(session), datatype, filename), session optional
OpJoin(session, datatype, filename) ==
    (IF session = None THEN <<>> ELSE <<"ses-" \o session>>)
        \o <<datatype>> \o filename

\* sorted() of a list of strings
Sorted(paths) == SortSeq(paths, StrLess)

RECURSIVE SortedKeys(_)
SortedKeys(S) ==
    IF S = {} THEN <<>>
    ELSE LET m == CHOOSE x \in S : \A y \in S : x <= y
         IN  <<m>> \o SortedKeys(S \ {m})

InSeq(x, s) == \E i \in 1..Len(s) : s[i] = x

-----------------------------------------------------------------------------
(* intended_for_gen(niftis, fmap_nifti)                                    *)

get_entities(n) == layout[n]
get_metadata(n) == disk[n]
AcqTime(n) == get_metadata(n)["AcquisitionTime"]

\* OutDict with the files acquired at the field map's own time kept
\* (< where the code has <=)
RECURSIVE OutDictKeepsEqual(_, _, _)
OutDictKeepsEqual(ns, acq_time, i) ==
    IF i = 0 THEN <<>>
    ELSE LET d == OutDictKeepsEqual(ns, acq_time, i - 1)
             n == ns[i]
             t == AcqTime(n)
         IN  IF t < acq_time THEN d
             ELSE IF t \in DOMAIN d /\ ~InSeq(n, d[t])
                  THEN [d EXCEPT ![t] = Append(@, n)]
             ELSE IF t \notin DOMAIN d THEN d @@ (t :> <<n>>)
             ELSE d

\* out_dict after the first i files of niftis (the loop of lines 25-33)
RECURSIVE OutDict(_, _, _)
OutDict(ns, acq_time, i) ==
    IF i = 0 THEN <<>>
    ELSE LET d == OutDict(ns, acq_time, i - 1)
             n == ns[i]
             t == AcqTime(n)
         IN  IF t <= acq_time THEN d
             ELSE IF t \in DOMAIN d /\ ~InSeq(n, d[t])
                  THEN [d EXCEPT ![t] = Append(@, n)]
             ELSE IF t \notin DOMAIN d THEN d @@ (t :> <<n>>)
             ELSE d

\* fmap_entities[x] == i[x] for x in fmap_entities if x != 'run', for every
\* member i: a member without one of the keys raises KeyError
MatchKeys(fmap_entities) == DOMAIN fmap_entities \ {"run"}
MatchRaises(fmap_entities, bucket) ==
    \E j \in 1..Len(bucket) : \E x \in MatchKeys(fmap_entities) :
        ~Has(get_entities(bucket[j]), x)
MatchAny(fmap_entities, bucket) ==
    \E j \in 1..Len(bucket) : \A x \in MatchKeys(fmap_entities) :
        fmap_entities[x] = get_entities(bucket[j])[x]

\* The paths one bucket adds (lines 45-51): session and datatype of its
\* first member, the file name of each member.
BucketPaths(bucket) ==
    LET first == get_entities(bucket[1])
    IN  Sorted([j \in 1..Len(bucket) |->
            OpJoin(IF Has(first, "session") THEN first["session"] ELSE None,
                   first["datatype"],
                   Filename(get_entities(bucket[j])))])

\* The walk over the sorted times (lines 34-51), from the i-th on.
RECURSIVE Walk(_, _, _, _, _)
Walk(keys, i, out_dict, fmap_entities, acc) ==
    IF i > Len(keys) THEN [raised |-> FALSE, value |-> acc]
    ELSE LET bucket == out_dict[keys[i]]
             first == get_entities(bucket[1])
         IN  IF first["datatype"] = "fmap"
             THEN IF MatchRaises(fmap_entities, bucket)
                  THEN [raised |-> TRUE, value |-> <<>>]
                  ELSE IF MatchAny(fmap_entities, bucket)
                  THEN [raised |-> FALSE, value |-> acc]
                  ELSE Walk(keys, i + 1, out_dict, fmap_entities, acc)
             ELSE IF Has(fmap_entities, "acquisition")
                     /\ fmap_entities["acquisition"] # first["datatype"]
             THEN Walk(keys, i + 1, out_dict, fmap_entities, acc)
             ELSE Walk(keys, i + 1, out_dict, fmap_entities,
                       acc \o BucketPaths(bucket))

intended_for_gen(ns, f) ==
    LET out_dict == OutDict(ns, AcqTime(f), Len(ns))
        w == Walk(SortedKeys(DOMAIN out_dict), 1, out_dict, get_entities(f), <<>>)
    IN  [raised |-> w.raised, value |-> Sorted(w.value)]


-----------------------------------------------------------------------------
(* The files a dataset may hold.                                           *)

Sessions == {"1", "2"}

\* acquisition label and run of the field maps
FmapKinds == {<<"func", "1">>, <<"func", "2">>, <<"dwi", "1">>, <<None, "1">>}

FmapFile(sub, sess, acq, run) ==
    Entities(sub, sess, "fmap", None, acq, "AP", run, "epi")
FuncFile(sub, sess) == Entities(sub, sess, "func", "rest", None, None, None, "bold")
DwiFile(sub, sess) == Entities(sub, sess, "dwi", None, None, None, None, "dwi")

FilesOf(sub, sess) ==
    {FmapFile(sub, sess, fk[1], fk[2]) : fk \in FmapKinds}
        \cup {FuncFile(sub, sess), DwiFile(sub, sess)}

Range(f) == {f[i] : i \in DOMAIN f}
Injective(f) == \A i, j \in DOMAIN f : f[i] = f[j] => i = j

\* Lists of 1..max distinct files, in any order.
ListsOver(files, max) ==
    UNION {{l \in [1..n -> files] : Injective(l)} : n \in 1..max}

\* A dataset is without sessions, or every file of it is in a session: the
\* files of one session, and the scans of another.
GenLayouts ==
    ListsOver(FilesOf("01", None), MaxNiftis)
        \cup ListsOver(FilesOf("01", "1") \cup {FuncFile("01", "2"), DwiFile("01", "2")},
                      MaxNiftis)

\* Acquisition times are compared only (<=, ==): a time is modelled by its
\* rank among the distinct times of the dataset, ties included.
Ranks(n) == {t \in [1..n -> 1..n] : \E m \in 1..n : Range(t) = 1..m}

Fmaps(ns) == {ns[i] : i \in {j \in 1..Len(ns) : get_entities(ns[j])["datatype"] = "fmap"}}

-----------------------------------------------------------------------------
(* A call of intended_for_gen on the files an index returned.              *)

InitGen ==
    /\ layout \in GenLayouts
    /\ \E t \in Ranks(Len(layout)) :
          disk = [i \in 1..Len(layout) |-> [AcquisitionTime |-> t[i]]]
    /\ ses = None
    /\ niftis = [i \in 1..Len(layout) |-> i]
    /\ fmap_nifti \in Fmaps(niftis)
    /\ intended_for = None
    /\ pc = "call"
    /\ overwrite = FALSE /\ sidx = 0 /\ k = 0 /\ runNo = 0
    /\ written = {} /\ assigned = <<>> /\ disk0 = disk /\ entry = None
    /\ NoTools

GenReturn ==
    /\ pc = "call"
    /\ ~intended_for_gen(niftis, fmap_nifti).raised
    /\ intended_for' = intended_for_gen(niftis, fmap_nifti).value
    /\ pc' = "returned"
    /\ UNCHANGED <<layout, disk, ses, niftis, fmap_nifti, completeVars>>

GenRaise ==
    /\ pc = "call"
    /\ intended_for_gen(niftis, fmap_nifti).raised
    /\ pc' = "raised"
    /\ UNCHANGED <<layout, disk, ses, niftis, fmap_nifti, intended_for, completeVars>>

NextGen == GenReturn \/ GenRaise

SpecGen == InitGen /\ [][NextGen]_vars


-----------------------------------------------------------------------------
(* complete_jsons(bids_dir, subs, ses, overwrite)                          *)

Subs == <<"01", "02">>

\* layout.get(subject=sid[, session=ses], extension='nii.gz',
\*            datatype=['func', 'fmap', 'dwi']): every file of the model is a
\* .nii.gz of one of these datatypes.
LayoutGet(sid, sess) ==
    SelectSeq([i \in 1..Len(layout) |-> i],
              LAMBDA i : /\ layout[i]["subject"] = sid
                         /\ sess # None =>
                               /\ Has(layout[i], "session")
                               /\ layout[i]["session"] = sess)

Put(data, key, val) ==
    [x \in DOMAIN data \cup {key} |-> IF x = key THEN val ELSE data[x]]

\* nib.load(nifti.path).shape: the extents differ, so that the axis read shows
Shape == <<64, 96, 32>>

PeIdx(c) == CASE c = "i" -> 1 [] c = "j" -> 2 [] c = "k" -> 3

\* line 83-84
ReadoutCond(data) ==
    /\ "EffectiveEchoSpacing" \in DOMAIN data
    /\ overwrite \/ "TotalReadoutTime" \notin DOMAIN data

\* line 86 (KeyError) and lines 89-92 (ees is None)
ReadoutRaises(data) ==
    \/ "PhaseEncodingDirection" \notin DOMAIN data
    \/ Head(data["PhaseEncodingDirection"]) \notin {"i", "j", "k"}
    \/ data["EffectiveEchoSpacing"] = JsonNull

\* ReadoutTime without the - 1 of line 93
ReadoutTimeAllLines(data) ==
    LET acc == IF "ParallelReductionFactorInPlane" \in DOMAIN data
               THEN data["ParallelReductionFactorInPlane"] ELSE 1
        etl == Shape[PeIdx(Head(data["PhaseEncodingDirection"]))] \div acc
    IN  data["EffectiveEchoSpacing"] * etl

\* lines 86-93; PhaseEncodingDirection is a string, a sequence of characters
\* here, and the factor a whole number
ReadoutTime(data) ==
    LET acc == IF "ParallelReductionFactorInPlane" \in DOMAIN data
               THEN data["ParallelReductionFactorInPlane"] ELSE 1
        etl == Shape[PeIdx(Head(data["PhaseEncodingDirection"]))] \div acc
    IN  data["EffectiveEchoSpacing"] * (etl - 1)

\* TaskNameCond with the test of the key left out
TaskNameCondAlways(ent, data) == Has(ent, "task")

\* line 95
TaskNameCond(ent, data) ==
    /\ Has(ent, "task")
    /\ overwrite \/ "TaskName" \notin DOMAIN data

\* lines 98-99
IntendedForCond(ent, data) ==
    /\ ent["datatype"] = "fmap"
    /\ overwrite \/ "IntendedFor" \notin DOMAIN data

\* One pass of the loop body (lines 80-101) for file n of ns: whether it
\* raised, data as it then is, and the keys assigned (dump == 1 iff any).
CompleteData(ns, n) ==
    LET ent == get_entities(n)
        d0 == get_metadata(n)
        c1 == ReadoutCond(d0)
        r1 == c1 /\ ReadoutRaises(d0)
        d1 == IF c1 /\ ~r1 THEN Put(d0, "TotalReadoutTime", ReadoutTime(d0)) ELSE d0
        c2 == TaskNameCond(ent, d1)
        d2 == IF c2 THEN Put(d1, "TaskName", ent["task"]) ELSE d1
        c3 == IntendedForCond(ent, d2)
        g == intended_for_gen(ns, n)
        r3 == c3 /\ g.raised
        d3 == IF c3 /\ ~r3 THEN Put(d2, "IntendedFor", g.value) ELSE d2
        k12 == (IF c1 THEN {"TotalReadoutTime"} ELSE {})
                   \cup (IF c2 THEN {"TaskName"} ELSE {})
    IN  IF r1 THEN [raised |-> TRUE, data |-> d0, keys |-> {}]
        ELSE IF r3 THEN [raised |-> TRUE, data |-> d2, keys |-> k12]
        ELSE [raised |-> FALSE, data |-> d3,
              keys |-> k12 \cup (IF c3 THEN {"IntendedFor"} ELSE {})]

\* lines 102-104
Dump(res) == res.keys # {}

\* for sid in subs: niftis = layout.get(...)   (lines 69-77)
SubjectGet ==
    /\ pc = "subject"
    /\ sidx <= Len(Subs)
    /\ LET ns == LayoutGet(Subs[sidx], ses)
       IN  /\ niftis' = ns
           /\ IF ns = <<>>
              THEN sidx' = sidx + 1 /\ k' = 0 /\ pc' = "subject"
              ELSE sidx' = sidx /\ k' = 1 /\ pc' = "nifti"
    /\ UNCHANGED <<argVars, disk, written, assigned>>

\* for nifti in niftis: the body ran to its end   (lines 78-104)
CompleteNifti ==
    /\ pc = "nifti"
    /\ LET n == niftis[k]
           res == CompleteData(niftis, n)
       IN  /\ ~res.raised
           /\ disk' = IF Dump(res) THEN [disk EXCEPT ![n] = res.data] ELSE disk
           /\ written' = IF Dump(res) THEN written \cup {n} ELSE written
           /\ assigned' = assigned @@ (n :> res.keys)
    /\ IF k = Len(niftis)
       THEN sidx' = sidx + 1 /\ k' = 0 /\ pc' = "subject"
       ELSE sidx' = sidx /\ k' = k + 1 /\ pc' = "nifti"
    /\ UNCHANGED <<argVars, niftis>>

\* for nifti in niftis: the body raised, and so does complete_jsons
CompleteRaise ==
    /\ pc = "nifti"
    /\ LET n == niftis[k]
           res == CompleteData(niftis, n)
       IN  /\ res.raised
           /\ assigned' = assigned @@ (n :> res.keys)
    /\ pc' = "raised"
    /\ UNCHANGED <<argVars, disk, sidx, niftis, k, written>>

\* the loop over subs is over: complete_jsons returns
CompleteReturn ==
    /\ pc = "subject"
    /\ sidx > Len(Subs)
    /\ pc' = "done"
    /\ UNCHANGED <<argVars, disk, sidx, niftis, k, written, assigned>>

\* The files of the model of complete_jsons: one session of subject 01 (its
\* field maps for functional scans and the one without acquisition label),
\* and a functional scan of its other session and of another subject.
SpecFiles ==
    (FilesOf("01", "1") \ {FmapFile("01", "1", "dwi", "1")})
        \cup {FuncFile("01", "2"), FuncFile("02", "1")}

SpecLayouts == ListsOver(SpecFiles, MaxFiles)

\* The sidecar heudiconv left, or an earlier completion: the keys are there
\* or not for the whole dataset. Series are numbered in acquisition order.
Sidecar(ent, t, eesKind, pre) ==
    [AcquisitionTime |-> t, SeriesNumber |-> t]
        @@ [PhaseEncodingDirection |-> <<"j">>]
        @@ (IF eesKind = "absent" THEN <<>>
            ELSE [EffectiveEchoSpacing |-> IF eesKind = "null" THEN JsonNull ELSE 5])
        @@ (IF "TotalReadoutTime" \in pre THEN [TotalReadoutTime |-> 1] ELSE <<>>)
        @@ (IF "TaskName" \in pre /\ Has(ent, "task")
            THEN [TaskName |-> "old"] ELSE <<>>)
        @@ (IF "IntendedFor" \in pre /\ ent["datatype"] = "fmap"
            THEN [IntendedFor |-> <<<<"old">>>>] ELSE <<>>)

\* where a call of the entry function starts
StartPc(e) == IF e = "complete_jsons" THEN "subject" ELSE "fmap_get"

InitDataset ==
    /\ layout \in SpecLayouts
    /\ \E t \in Ranks(Len(layout)) :
       \E eesKind \in {"absent", "value", "null"} :
       \E pre \in SUBSET {"TotalReadoutTime", "TaskName", "IntendedFor"} :
          disk = [i \in 1..Len(layout) |-> Sidecar(layout[i], t[i], eesKind, pre)]
    /\ disk0 = disk
    /\ ses \in {None, "1"}
    /\ sidx = 1 /\ k = 0 /\ niftis = <<>> /\ runNo = 1
    /\ written = {} /\ assigned = <<>>
    /\ fmap_nifti = 0 /\ intended_for = None
    /\ pc = StartPc(entry)
    /\ NoTools

Init ==
    /\ entry = "complete_jsons"
    /\ overwrite \in BOOLEAN
    /\ InitDataset

Next ==
    \/ SubjectGet
    \/ CompleteNifti
    \/ CompleteRaise
    \/ CompleteReturn

Spec == Init /\ [][Next]_vars

(***************************************************************************)
(* complete_jsons.py: run(bids_dir, subs, ses, overwrite), the three       *)
(* stages complete_fmap_jsons, complete_func_jsons, complete_dwi_jsons.    *)
(* Each stage builds its own layout and reads every sidecar from disk when *)
(* it comes to it.                                                         *)
(***************************************************************************)

Positions == [i \in 1..Len(layout) |-> i]

\* the session filter of the calls that leave it out when ses is falsy
InSession(n) ==
    ses # None => (Has(layout[n], "session") /\ layout[n]["session"] = ses)

\* layout.get(subject=sid, session=ses, ...) as line 101 calls it, whatever
\* ses is: a filter of None keeps the files that lack the entity
SessionIs(n) ==
    IF ses = None THEN ~Has(layout[n], "session")
    ELSE Has(layout[n], "session") /\ layout[n]["session"] = ses

\* _files_to_dict over fs[1..i]: the keys in insertion order, and the file of
\* each key (a later file of the same SeriesNumber replaces the earlier one)
RECURSIVE _files_to_dict(_, _)
_files_to_dict(fs, i) ==
    IF i = 0 THEN [keys |-> <<>>, file |-> <<>>]
    ELSE LET d == _files_to_dict(fs, i - 1)
             acq_time == disk[fs[i]]["SeriesNumber"]
         IN  [keys |-> IF InSeq(acq_time, d.keys) THEN d.keys
                       ELSE Append(d.keys, acq_time),
              file |-> Put(d.file, acq_time, fs[i])]

\* bisect.bisect_right(dts, x) of a sorted list
bisect_right(dts, x) == Cardinality({i \in 1..Len(dts) : dts[i] <= x})

Acquisitions == <<"func", "dwi">>
Dirs == <<"AP", "PA">>

\* lines 56-61
FmapJsons(sid, acquisition, dir) ==
    SelectSeq(Positions,
              LAMBDA n : /\ layout[n]["subject"] = sid
                         /\ InSession(n)
                         /\ layout[n]["datatype"] = "fmap"
                         /\ Has(layout[n], "direction")
                         /\ layout[n]["direction"] = dir
                         /\ Has(layout[n], "acquisition")
                         /\ layout[n]["acquisition"] = acquisition)

\* lines 71-74
DatJsons(sid, acquisition) ==
    SelectSeq(Positions,
              LAMBDA n : /\ layout[n]["subject"] = sid
                         /\ InSession(n)
                         /\ layout[n]["datatype"] = acquisition)

\* lines 77-90 over the first i keys of dat_jsons: the field map each scan
\* goes to
RECURSIVE Targets(_, _, _, _)
Targets(dat, i, dts, fmap_dict) ==
    IF i = 0 THEN <<>>
    ELSE LET dat_file == dat.keys[i]
             b == bisect_right(dts, dat_file) - 1
             idx == IF b = -1 THEN 0 ELSE b
         IN  Append(Targets(dat, i - 1, dts, fmap_dict),
                    [scan |-> dat.file[dat_file],
                     fmap |-> fmap_dict.file[dts[idx + 1]]])

\* intendedfor_dict[fmap_file] of lines 69-90 for one group
IntendedForDict(sid, acquisition, dir, f) ==
    LET fmap_jsons == FmapJsons(sid, acquisition, dir)
        fmap_dict == _files_to_dict(fmap_jsons, Len(fmap_jsons))
        dts == SortedKeys(Range(fmap_dict.keys))
        dat_jsons == DatJsons(sid, acquisition)
        dat == _files_to_dict(dat_jsons, Len(dat_jsons))
        ts == Targets(dat, Len(dat.keys), dts, fmap_dict)
        mine == SelectSeq(ts, LAMBDA t : t.fmap = f)
    IN  [j \in 1..Len(mine) |-> Filename(layout[mine[j].scan])]

\* the files of the groups of lines 53-54 (a field map is in one group at most)
Grouped(sid) ==
    {n \in 1..Len(layout) :
        \E a \in Range(Acquisitions), d \in Range(Dirs) :
            InSeq(n, FmapJsons(sid, a, d))}

\* line 96
LegacyIntendedForCond(data) == overwrite \/ "IntendedFor" \notin DOMAIN data

\* lines 109, 150, 195
LegacyReadoutCond(data) == overwrite \/ "TotalReadoutTime" \notin DOMAIN data

\* lines 112 (KeyError) and 115-118 (ees is None), and the like of the others
LegacyReadoutRaises(data) ==
    \/ "PhaseEncodingDirection" \notin DOMAIN data
    \/ Head(data["PhaseEncodingDirection"]) \notin {"i", "j", "k"}
    \/ "EffectiveEchoSpacing" \notin DOMAIN data
    \/ data["EffectiveEchoSpacing"] = JsonNull

\* line 162
LegacyTaskNameCond(data) == overwrite \/ "TaskName" \notin DOMAIN data

\* lines 165-166, of data as lines 160 and 163 left it
FuncDumpCond(data) ==
    \/ overwrite
    \/ "TaskName" \notin DOMAIN data
    \/ "TotalReadoutTime" \notin DOMAIN data

\* the body of the loop over niftis of a stage for file n: lines 103-121 of
\* complete_fmap_jsons, 146-168 of complete_func_jsons, 190-207 of
\* complete_dwi_jsons
LegacyData(stage, n) ==
    LET d0 == get_metadata(n)
        c1 == LegacyReadoutCond(d0)
        r1 == c1 /\ LegacyReadoutRaises(d0)
        d1 == IF c1 /\ ~r1 THEN Put(d0, "TotalReadoutTime", ReadoutTime(d0)) ELSE d0
        c2 == stage = "func" /\ LegacyTaskNameCond(d1)
        d2 == IF c2 THEN Put(d1, "TaskName", layout[n]["task"]) ELSE d1
    IN  IF r1 THEN [raised |-> TRUE, data |-> d0, keys |-> {}, dump |-> FALSE]
        ELSE [raised |-> FALSE, data |-> d2,
              keys |-> (IF c1 THEN {"TotalReadoutTime"} ELSE {})
                           \cup (IF c2 THEN {"TaskName"} ELSE {}),
              dump |-> IF stage = "func" THEN FuncDumpCond(d2) ELSE c1]

\* the keys assigned for n so far, and keys
Noted(f, n, keys) ==
    [x \in DOMAIN f \cup {n} |->
        (IF x \in DOMAIN f THEN f[x] ELSE {}) \cup (IF x = n THEN keys ELSE {})]

\* layout.get of line 101, of lines 140-143 (the one task of the model) and of
\* lines 184-187
LegacyGet(stage, sid) ==
    SelectSeq(Positions,
              LAMBDA n : /\ layout[n]["subject"] = sid
                         /\ layout[n]["datatype"] = stage
                         /\ IF stage = "fmap" THEN SessionIs(n) ELSE InSession(n)
                         /\ stage = "func" => Has(layout[n], "task"))

Stages == <<"fmap", "func", "dwi">>
StageOf(p) == CASE p \in {"fmap_get", "fmap_nifti"} -> 1
                [] p \in {"func_get", "func_nifti"} -> 2
                [] p \in {"dwi_get", "dwi_nifti"} -> 3
GetPc(st) == <<"fmap_get", "func_get", "dwi_get">>[st]
NiftiPc(st) == <<"fmap_nifti", "func_nifti", "dwi_nifti">>[st]

\* for sid in subs of complete_fmap_jsons: the groups of lines 53-99, then
\* the layout.get of line 101
FmapIntendedFor ==
    /\ pc = "fmap_get"
    /\ sidx <= Len(Subs)
    /\ LET sid == Subs[sidx]
           G == Grouped(sid)
           W == {n \in G : LegacyIntendedForCond(disk[n])}
           lst(n) == LET a == layout[n]["acquisition"]
                         d == layout[n]["direction"]
                     IN  IntendedForDict(sid, a, d, n)
           ns == LegacyGet("fmap", sid)
       IN  /\ disk' = [n \in 1..Len(layout) |->
                          IF n \in W THEN Put(disk[n], "IntendedFor", lst(n))
                          ELSE disk[n]]
           /\ written' = written \cup W
           /\ assigned' = [n \in DOMAIN assigned \cup G |->
                              (IF n \in DOMAIN assigned THEN assigned[n] ELSE {})
                                  \cup (IF n \in W THEN {"IntendedFor"} ELSE {})]
           /\ niftis' = ns
           /\ IF ns = <<>>
              THEN sidx' = sidx + 1 /\ k' = 0 /\ pc' = "fmap_get"
              ELSE sidx' = sidx /\ k' = 1 /\ pc' = "fmap_nifti"
    /\ UNCHANGED argVars

\* for sid in subs of complete_func_jsons and complete_dwi_jsons: layout.get
StageGet ==
    /\ pc \in {"func_get", "dwi_get"}
    /\ sidx <= Len(Subs)
    /\ LET ns == LegacyGet(Stages[StageOf(pc)], Subs[sidx])
       IN  /\ niftis' = ns
           /\ IF ns = <<>>
              THEN sidx' = sidx + 1 /\ k' = 0 /\ pc' = pc
              ELSE sidx' = sidx /\ k' = 1 /\ pc' = NiftiPc(StageOf(pc))
    /\ UNCHANGED <<argVars, disk, written, assigned>>

\* for nifti in niftis of a stage: the body ran to its end
StageNifti ==
    /\ pc \in {"fmap_nifti", "func_nifti", "dwi_nifti"}
    /\ LET n == niftis[k]
           res == LegacyData(Stages[StageOf(pc)], n)
       IN  /\ ~res.raised
           /\ disk' = IF res.dump THEN [disk EXCEPT ![n] = res.data] ELSE disk
           /\ written' = IF res.dump THEN written \cup {n} ELSE written
           /\ assigned' = Noted(assigned, n, res.keys)
    /\ IF k = Len(niftis)
       THEN sidx' = sidx + 1 /\ k' = 0 /\ pc' = GetPc(StageOf(pc))
       ELSE sidx' = sidx /\ k' = k + 1 /\ pc' = pc
    /\ UNCHANGED <<argVars, niftis>>

\* for nifti in niftis of a stage: the body raised, and so does run
StageRaise ==
    /\ pc \in {"fmap_nifti", "func_nifti", "dwi_nifti"}
    /\ LET n == niftis[k]
           res == LegacyData(Stages[StageOf(pc)], n)
       IN  /\ res.raised
           /\ assigned' = Noted(assigned, n, res.keys)
    /\ pc' = "raised"
    /\ UNCHANGED <<argVars, disk, sidx, niftis, k, written>>

\* a stage's loop over subs is over: run calls the next stage (lines 215-217)
StageReturn ==
    /\ pc \in {"fmap_get", "func_get"}
    /\ sidx > Len(Subs)
    /\ pc' = GetPc(StageOf(pc) + 1)
    /\ sidx' = 1
    /\ UNCHANGED <<argVars, disk, niftis, k, written, assigned>>

\* complete_dwi_jsons is over: run returns
RunReturn ==
    /\ pc = "dwi_get"
    /\ sidx > Len(Subs)
    /\ pc' = "done"
    /\ UNCHANGED <<argVars, disk, sidx, niftis, k, written, assigned>>

InitRun ==
    /\ entry = "run"
    /\ overwrite \in BOOLEAN
    /\ InitDataset

NextRun ==
    \/ FmapIntendedFor
    \/ StageGet
    \/ StageNifti
    \/ StageRaise
    \/ StageReturn
    \/ RunReturn

SpecRun == InitRun /\ [][NextRun]_vars

\* The entry function is called again, with the same arguments, on the
\* dataset the first call left, whether it returned or raised.
Rerun ==
    /\ pc \in {"done", "raised"}
    /\ runNo = 1
    /\ runNo' = 2
    /\ disk0' = disk
    /\ written' = {} /\ assigned' = <<>>
    /\ sidx' = 1 /\ k' = 0 /\ niftis' = <<>>
    /\ pc' = StartPc(entry)
    /\ UNCHANGED <<layout, disk, ses, overwrite, entry, fmap_nifti, intended_for,
                   toolVars>>

InitTwice ==
    /\ entry \in {"complete_jsons", "run"}
    /\ overwrite = FALSE
    /\ InitDataset

NextTwice ==
    \/ SubjectGet
    \/ CompleteNifti
    \/ CompleteRaise
    \/ CompleteReturn
    \/ FmapIntendedFor
    \/ StageGet
    \/ StageNifti
    \/ StageRaise
    \/ StageReturn
    \/ RunReturn
    \/ Rerun

SpecTwice == InitTwice /\ [][NextTwice]_vars


-----------------------------------------------------------------------------
(* The readout-time backfill on one file, over the values its sidecar and  *)
(* the arguments may have, by either entry function.                       *)

EesValues == {5, 7, JsonNull}
PedValues == {<<"i">>, <<"i", "-">>, <<"j">>, <<"j", "-">>, <<"k">>, <<"k", "-">>}
Factors == {1, 2, 3}

ReadoutFiles ==
    {FuncFile("01", "1"), DwiFile("01", "1"), FmapFile("01", "1", "func", "1")}

InitReadout ==
    /\ entry \in {"complete_jsons", "run"}
    /\ overwrite \in BOOLEAN
    /\ layout \in {<<f>> : f \in ReadoutFiles}
    /\ \E ees \in EesValues, ped \in PedValues, acc \in Factors,
          factor \in BOOLEAN, old \in BOOLEAN :
          disk = <<[AcquisitionTime |-> 1, SeriesNumber |-> 1,
                    EffectiveEchoSpacing |-> ees, PhaseEncodingDirection |-> ped]
                   @@ (IF factor THEN [ParallelReductionFactorInPlane |-> acc]
                       ELSE <<>>)
                   @@ (IF old THEN [TotalReadoutTime |-> 1] ELSE <<>>)>>
    /\ disk0 = disk
    /\ ses = "1"
    /\ sidx = 1 /\ k = 0 /\ niftis = <<>> /\ runNo = 1
    /\ written = {} /\ assigned = <<>>
    /\ fmap_nifti = 0 /\ intended_for = None
    /\ pc = StartPc(entry)
    /\ NoTools

NextReadout ==
    \/ SubjectGet
    \/ CompleteNifti
    \/ CompleteRaise
    \/ CompleteReturn
    \/ FmapIntendedFor
    \/ StageGet
    \/ StageNifti
    \/ StageRaise
    \/ StageReturn
    \/ RunReturn

SpecReadout == InitReadout /\ [][NextReadout]_vars

-----------------------------------------------------------------------------
(* The pruning pass: clean_jsons(bids_dir, sub, sess) of utils.py and      *)
(* main(bids_dir, sub, sess) of clean_metadata.py. A sidecar is a function *)
(* from its keys to their values; the value of 'global' is itself one.     *)

MaxScans == 2       \* files in the dataset the pruning pass is run on

KEEP_KEYS ==
    {"AnatomicalLandmarkCoordinates", "AcquisitionTime", "AcquisitionDuration",
     "CogAtlasID", "CogPOID", "CoilCombinationMethod", "ConversionSoftware",
     "ConversionSoftwareVersion", "DelayAfterTrigger", "DelayTime",
     "DeviceSerialNumber", "DwellTime", "EchoNumbers", "EchoTime",
     "EchoTrainLength", "EffectiveEchoSpacing", "FlipAngle", "GradientSetType",
     "HighBit", "ImagedNucleus", "ImageType", "ImagingFrequency",
     "InPlanePhaseEncodingDirection", "InstitutionName", "InstitutionAddress",
     "InstitutionalDepartmentName", "Instructions", "IntendedFor",
     "InversionTime", "MRAcquisitionType", "MagneticFieldStrength",
     "Manufacturer", "ManufacturersModelName", "MatrixCoilMode", "Modality",
     "MRTransmitCoilSequence", "MultibandAccelerationFactor",
     "NumberOfAverages", "NumberOfPhaseEncodingSteps",
     "NumberOfVolumesDiscardedByScanner", "NumberOfVolumesDiscardedByUser",
     "NumberShots", "ParallelAcquisitionTechnique",
     "ParallelReductionFactorInPlane", "PartialFourier",
     "PartialFourierDirection", "PhaseEncodingDirection", "PixelBandwidth",
     "ProtocolName", "PulseSequenceDetails", "PulseSequenceType",
     "ReceiveCoilActiveElements", "ReceiveCoilName", "RepetitionTime", "Rows",
     "SAR", "ScanningSequence", "ScanOptions", "SequenceName",
     "SequenceVariant", "SeriesDescription", "SeriesNumber",
     "SliceEncodingDirection", "SliceLocation", "SliceThickness",
     "SliceTiming", "SoftwareVersions", "SpacingBetweenSlices", "StationName",
     "TaskDescription", "TaskName", "TotalReadoutTime", "Units", "VolumeTiming"}

\* Kept, but of a sidecar without 'global' nothing
KeptOnlyWithGlobal(metadata) ==
    IF "global" \in DOMAIN metadata
    THEN [key \in KEEP_KEYS \cap DOMAIN metadata |-> metadata[key]]
    ELSE <<>>

\* utils.py lines 148-149: metadata2
Kept(metadata) == [key \in KEEP_KEYS \cap DOMAIN metadata |-> metadata[key]]

\* clean_metadata.py line 59: metadata2
MainKept(metadata) == [key \in DOMAIN metadata \ {"global"} |-> metadata[key]]

\* utils.py lines 150-153, clean_metadata.py lines 60-63: global_keys
GlobalKeys(metadata) ==
    IF "global" \in DOMAIN metadata /\ "const" \in DOMAIN metadata["global"]
    THEN metadata["global"]["const"]
    ELSE <<>>

\* Lifted, the test of the entry's own keys left out
LiftedOverLocal(metadata) == KEEP_KEYS \cap DOMAIN GlobalKeys(metadata)

\* utils.py lines 155-156: the keys taken from global_keys
Lifted(metadata) ==
    {key \in KEEP_KEYS : key \notin DOMAIN metadata /\ key \in DOMAIN GlobalKeys(metadata)}

\* clean_metadata.py lines 65-66: the keys taken from global_keys
MainLifted(metadata) ==
    {key \in DOMAIN GlobalKeys(metadata) : key \notin DOMAIN metadata}

\* the sidecar json.dump writes: metadata2 with the lifted keys set
Merge(metadata2, lifted, global_keys) ==
    [key \in DOMAIN metadata2 \cup lifted |->
        IF key \in lifted THEN global_keys[key] ELSE metadata2[key]]

\* the loop body of clean_jsons (utils.py 146-157)
clean_jsons(metadata) ==
    Merge(Kept(metadata), Lifted(metadata), GlobalKeys(metadata))

\* the loop body of main (clean_metadata.py 57-67)
main(metadata) ==
    Merge(MainKept(metadata), MainLifted(metadata), GlobalKeys(metadata))

Prune(metadata) ==
    IF entry = "clean_jsons" THEN clean_jsons(metadata) ELSE main(metadata)

\* the sub argument
PruneSub == "01"

\* layout.get(extension='nii.gz', subject=sub, session=sess)
Scans ==
    SelectSeq([i \in 1..Len(layout) |-> i],
              LAMBDA n : /\ layout[n]["subject"] = PruneSub
                         /\ Has(layout[n], "session")
                         /\ layout[n]["session"] = ses)

\* scans = layout.get(...)
PruneGet ==
    /\ pc = "prune_get"
    /\ niftis' = Scans
    /\ IF Scans = <<>> THEN k' = 0 /\ pc' = "done" ELSE k' = 1 /\ pc' = "prune_scan"
    /\ UNCHANGED <<argVars, disk, sidx, written, assigned>>

\* for scan in scans: the sidecar is rewritten
PruneScan ==
    /\ pc = "prune_scan"
    /\ disk' = [disk EXCEPT ![niftis[k]] = Prune(disk[niftis[k]])]
    /\ written' = written \cup {niftis[k]}
    /\ IF k = Len(niftis) THEN k' = 0 /\ pc' = "done" ELSE k' = k + 1 /\ pc' = pc
    /\ UNCHANGED <<argVars, sidx, niftis, assigned>>

\* the pass is run again on the dataset it left
PruneAgain ==
    /\ pc = "done"
    /\ runNo = 1
    /\ runNo' = 2
    /\ disk0' = disk
    /\ written' = {}
    /\ k' = 0 /\ niftis' = <<>>
    /\ pc' = "prune_get"
    /\ UNCHANGED <<layout, disk, ses, overwrite, sidx, assigned, entry,
                   fmap_nifti, intended_for, toolVars>>

\* An allow-listed key and one that is not, each in the sidecar, in
\* global.const, in both or in neither; 'global' absent, without 'const', or
\* with it.
AllowedKey == "EchoTime"
OtherKey == "AcquisitionNumber"

PruneSidecars ==
    {[key \in S |-> 1] @@ g :
        S \in SUBSET {AllowedKey, OtherKey},
        g \in {<<>>, [global |-> [slices |-> 1]]}
              \cup {[global |-> [const |-> [key \in G |-> 2]]] :
                        G \in SUBSET {AllowedKey, OtherKey}}}

PruneFiles == {FuncFile("01", "1"), DwiFile("01", "1"), FuncFile("02", "1")}

InitPrune ==
    /\ entry \in {"clean_jsons", "main"}
    /\ layout \in ListsOver(PruneFiles, MaxScans)
    /\ disk \in [1..Len(layout) -> PruneSidecars]
    /\ disk0 = disk
    /\ ses = "1"
    /\ overwrite = FALSE
    /\ sidx = 0 /\ k = 0 /\ niftis = <<>> /\ runNo = 1
    /\ written = {} /\ assigned = <<>>
    /\ fmap_nifti = 0 /\ intended_for = None
    /\ pc = "prune_get"
    /\ NoTools

NextPrune ==
    \/ PruneGet
    \/ PruneScan
    \/ PruneAgain

SpecPrune == InitPrune /\ [][NextPrune]_vars

-----------------------------------------------------------------------------
(* An external tool call: run(command) of bidsify/utils.py, which            *)
(* bidsify.py repeats line for line, and run_heudiconv of utils.py.  The     *)
(* child is started with stdout=PIPE and stderr=STDOUT, so all it prints     *)
(* goes through one pipe that the caller reads.                              *)

\* the longest output of a child, in lines
MaxLines == 2

\* what a child can print: nothing, or up to MaxLines lines
Outputs == UNION {[1..n -> {"warning\n", "error\n"}] : n \in 0..MaxLines}

ExitStatuses == {0, 1, 3}

\* the dataset plays no part
NoDataset ==
    /\ layout = <<>> /\ disk = <<>> /\ ses = None /\ overwrite = FALSE
    /\ sidx = 0 /\ niftis = <<>> /\ k = 0 /\ runNo = 0
    /\ written = {} /\ assigned = <<>> /\ disk0 = <<>>
    /\ fmap_nifti = 0 /\ intended_for = None

datasetVars ==
    <<layout, disk, ses, overwrite, sidx, niftis, k, runNo, written, assigned,
      disk0, fmap_nifti, intended_for>>

workflowVars == <<inputs, executed, dirs, age, tsv>>

\* the functions that start a child and read what it prints
ToolEntries == {"run", "bidsify.run", "run_heudiconv"}

\* subprocess.Popen(command, stdout=PIPE, stderr=STDOUT): the child that will
\* print the lines of output and then exit with status
Popen(output, status) ==
    [todo |-> output, pipe |-> <<>>, exited |-> FALSE, status |-> status]

\* the child prints its next line
ChildWrite ==
    /\ entry \in ToolEntries /\ ~child.exited /\ child.todo # <<>>
    /\ child' = [child EXCEPT !.todo = Tail(@),
                              !.pipe = Append(@, Head(child.todo))]
    /\ UNCHANGED <<datasetVars, workflowVars, entry, pc, streamed, outcome>>

\* the child has printed everything and exits
ChildExit ==
    /\ entry \in ToolEntries /\ ~child.exited /\ child.todo = <<>>
    /\ child' = [child EXCEPT !.exited = TRUE]
    /\ UNCHANGED <<datasetVars, workflowVars, entry, pc, streamed, outcome>>

Returned(value) ==
    [kind |-> "returned", value |-> value, error |-> None, captured |-> <<>>]

Raised(error, captured) ==
    [kind |-> "raised", value |-> None, error |-> error, captured |-> captured]

\* run: readline() gives a line, which is written to sys.stdout; the line is
\* not empty, so the loop goes on
ToolLine ==
    /\ entry \in {"run", "bidsify.run"} /\ pc = "tool_loop"
    /\ child.pipe # <<>>
    /\ streamed' = Append(streamed, Head(child.pipe))
    /\ child' = [child EXCEPT !.pipe = Tail(@)]
    /\ UNCHANGED <<datasetVars, workflowVars, entry, pc, outcome>>

\* run: readline() gives "" at the end of the output and poll() tells that the
\* child has exited: the loop ends, the return code is zero
ToolReturn ==
    /\ entry \in {"run", "bidsify.run"} /\ pc = "tool_loop"
    /\ child.pipe = <<>> /\ child.exited
    /\ child.status = 0
    /\ outcome' = Returned(IF entry = "run" THEN child.status ELSE None)
    /\ pc' = "done"
    /\ UNCHANGED <<datasetVars, workflowVars, entry, child, streamed>>

\* run: the loop ends and the return code is not zero: the exception's text
\* holds the code, the command and process.stdout.read(), which is what is in
\* the pipe and was not read yet
ToolRaise ==
    /\ entry \in {"run", "bidsify.run"} /\ pc = "tool_loop"
    /\ child.pipe = <<>> /\ child.exited
    /\ child.status # 0
    /\ outcome' = Raised("Exception", child.pipe)
    /\ pc' = "raised"
    /\ UNCHANGED <<datasetVars, workflowVars, entry, child, streamed>>

\* run_heudiconv: the loop over proc.stdout gets a line, which is bytes, and
\* sys.stdout.write refuses it
HeudiconvLine ==
    /\ entry = "run_heudiconv" /\ pc = "tool_loop"
    /\ child.pipe # <<>>
    /\ child' = [child EXCEPT !.pipe = Tail(@)]
    /\ outcome' = Raised("TypeError", <<>>)
    /\ pc' = "raised"
    /\ UNCHANGED <<datasetVars, workflowVars, entry, streamed>>

\* run_heudiconv: the output has ended; proc.wait() and the function ends,
\* whatever the return code
HeudiconvWait ==
    /\ entry = "run_heudiconv" /\ pc = "tool_loop"
    /\ child.pipe = <<>> /\ child.exited
    /\ outcome' = Returned(None)
    /\ pc' = "done"
    /\ UNCHANGED <<datasetVars, workflowVars, entry, child, streamed>>

InitTool ==
    /\ NoDataset
    /\ entry \in ToolEntries
    /\ \E output \in Outputs, status \in ExitStatuses :
           child = Popen(output, status)
    /\ streamed = <<>> /\ outcome = None
    /\ inputs = None /\ executed = <<>> /\ dirs = {} /\ age = None /\ tsv = None
    /\ pc = "tool_loop"

NextTool ==
    \/ ChildWrite
    \/ ChildExit
    \/ ToolLine
    \/ ToolReturn
    \/ ToolRaise
    \/ HeudiconvLine
    \/ HeudiconvWait

SpecTool == InitTool /\ [][NextTool]_vars

-----------------------------------------------------------------------------
(* The workflow: bidsify_workflow of bidsify/bidsify.py and main of          *)
(* bidsify.py.  The stages are consecutive statements of one function, and   *)
(* neither function has a try statement.                                     *)

\* the call has not ended
Running ==
    [kind |-> "running", value |-> None, error |-> None, captured |-> <<>>]

\* what dicomdir names: its file name, split at the dots, and what is there
DicomSources ==
    {[on_disk |-> "dir", name |-> <<"dicoms">>],
     [on_disk |-> "file", name |-> <<"dicoms", "tar">>],
     [on_disk |-> "file", name |-> <<"dicoms", "tar", "gz">>],
     [on_disk |-> "file", name |-> <<"T1w", "nii", "gz">>],
     [on_disk |-> "file", name |-> <<"dicoms", "zip">>],
     [on_disk |-> "missing", name |-> <<"dicoms">>]}

\* the heuristic argument: a name with or without an extension, which is or
\* is not an existing file, given as a str or as a Path; main makes a Path
Heuristics(e) ==
    {h \in [ext : BOOLEAN, is_file : BOOLEAN, type : {"str", "Path"}] :
        /\ h.is_file => h.ext
        /\ e = "main" => h.type = "Path"}

\* dcm_name.endswith('.' + ext)
EndsWith(name, ext) == Len(name) > 1 /\ name[Len(name)] = ext

\* lines 101-114 of bidsify_workflow: the error the checks raise, or None
Validate(dicomdir, heuristic) ==
    IF heuristic.ext /\ heuristic.type = "str"
    THEN "AttributeError"
    ELSE IF heuristic.ext /\ ~heuristic.is_file
    THEN "ValueError"
    ELSE IF dicomdir.on_disk = "file"
    THEN IF ~EndsWith(dicomdir.name, "gz") \/ EndsWith(dicomdir.name, "tar")
         THEN "ValueError"
         ELSE None
    ELSE IF dicomdir.on_disk = "dir"
    THEN None
    ELSE "ValueError"

\* an exception raised in a stage is dropped and the next stage is taken
FailedGoesOn(stage) == IF stage = "converter" THEN "defacer" ELSE "completion"

\* an exception raised in a stage leaves the function: the position after it
Failed(stage) == "raised"

\* bidsify_workflow: the checks of the arguments, then the output directory,
\* the work directory and .bidsignore are made
WorkflowValidate ==
    /\ entry = "bidsify_workflow" /\ pc = "validate"
    /\ LET error == Validate(inputs.dicomdir, inputs.heuristic)
       IN  IF error # None
           THEN /\ outcome' = Raised(error, <<>>)
                /\ pc' = "raised"
                /\ dirs' = dirs
           ELSE /\ dirs' = dirs \cup {"work"}
                /\ pc' = "converter"
                /\ outcome' = outcome
    /\ UNCHANGED <<datasetVars, entry, child, streamed, inputs, executed, age, tsv>>

\* bidsify_workflow: heudiconv(...) is called; it returns, or it raises; it
\* writes its provenance directory .heudiconv on the way
WorkflowConvert ==
    /\ entry = "bidsify_workflow" /\ pc = "converter"
    /\ executed' = Append(executed, "converter")
    /\ \E ok \in BOOLEAN, prov \in BOOLEAN :
           /\ ok => prov
           /\ dirs' = dirs \cup (IF prov THEN {"provenance"} ELSE {})
           /\ IF ok
              THEN pc' = "defacer" /\ outcome' = outcome
              ELSE /\ pc' = Failed("converter")
                   /\ outcome' = Raised("Exception", <<>>)
    /\ UNCHANGED <<datasetVars, entry, child, streamed, inputs, age, tsv>>

\* bidsify_workflow: sub_dir.glob('/anat/*.nii.gz') has an absolute pattern,
\* which pathlib refuses with NotImplementedError when the loop asks for the
\* first file
WorkflowDeface ==
    /\ entry = "bidsify_workflow" /\ pc = "defacer"
    /\ executed' = Append(executed, "defacer")
    /\ outcome' = Raised("NotImplementedError", <<>>)
    /\ pc' = Failed("defacer")
    /\ UNCHANGED <<datasetVars, entry, child, streamed, inputs, dirs, age, tsv>>

\* main: the kind of dicom_dir chooses the option of heudiconv and is not
\* checked; heuristics must be a file; the directories are made
MainValidate ==
    /\ entry = "main" /\ pc = "validate"
    /\ IF ~inputs.heuristic.is_file
       THEN /\ outcome' = Raised("ValueError", <<>>)
            /\ pc' = "raised"
            /\ dirs' = dirs
       ELSE /\ dirs' = dirs \cup {"work"}
            /\ pc' = "converter"
            /\ outcome' = outcome
    /\ UNCHANGED <<datasetVars, entry, child, streamed, inputs, executed, age, tsv>>

\* main: the command of heudiconv is formatted with the keyword our_dir while
\* the template names {sub} and {out_dir}: KeyError, before run(cmd)
MainConvert ==
    /\ entry = "main" /\ pc = "converter"
    /\ executed' = Append(executed, "converter")
    /\ outcome' = Raised("KeyError", <<>>)
    /\ pc' = Failed("converter")
    /\ UNCHANGED <<datasetVars, entry, child, streamed, inputs, dirs, age, tsv>>

InitWorkflow ==
    /\ NoDataset
    /\ entry \in {"bidsify_workflow", "main"}
    /\ child = None /\ streamed = <<>> /\ outcome = Running
    /\ \E d \in DicomSources, h \in Heuristics(entry) :
           inputs = [dicomdir |-> d, heuristic |-> h]
    /\ executed = <<>>
    /\ dirs \in SUBSET {"work", "provenance"}
    /\ age = None /\ tsv = None
    /\ pc = "validate"

NextWorkflow ==
    \/ WorkflowValidate
    \/ WorkflowConvert
    \/ WorkflowDeface
    \/ MainValidate
    \/ MainConvert

SpecWorkflow == InitWorkflow /\ [][NextWorkflow]_vars

-----------------------------------------------------------------------------
(* The update of participants.tsv: the last block of bidsify_workflow and    *)
(* of main, taken from the point where the earlier stages are over.          *)

\* an age, or a cell of the age column: an int, a float in hundredths, nan,
\* a str, or nothing
Age(kind, n, text) == [kind |-> kind, n |-> n, text |-> text]

\* age.replace('Y', '')
StripY(text) == SelectSeq(text, LAMBDA c : c # "Y")

\* int(age) for a str of digits; -1 stands for ValueError
RECURSIVE ParseInt(_)
ParseInt(text) ==
    LET digits == <<"0", "1", "2", "3", "4", "5", "6", "7", "8", "9">>
        last == text[Len(text)]
        front == ParseInt(SubSeq(text, 1, Len(text) - 1))
    IN  IF text = <<>> \/ last \notin Range(digits)
        THEN -1
        ELSE IF Len(text) = 1
        THEN (CHOOSE i \in 1..10 : digits[i] = last) - 1
        ELSE IF front = -1
        THEN -1
        ELSE 10 * front + (CHOOSE i \in 1..10 : digits[i] = last) - 1

\* the if / elif / else that chooses the age from the DICOM header; data.get
\* is false for an absent and for an empty element; legacy is main, which
\* passes on ValueError.  An absent StudyDate is an AttributeError.
SelectAge(data, legacy) ==
    IF data.PatientAge # <<>>
    THEN LET text == StripY(data.PatientAge)
         IN  IF ParseInt(text) # -1
             THEN Age("int", ParseInt(text), <<>>)
             ELSE IF legacy THEN Age("str", 0, text) ELSE Age("nan", 0, <<>>)
    ELSE IF data.PatientBirthDate # JsonNull
    THEN IF data.StudyDate = JsonNull
         THEN Age("AttributeError", 0, <<>>)
         ELSE LET days == data.StudyDate - data.PatientBirthDate
              IN  Age("float", (days * 800 + 1461) \div 2922, <<>>)
    ELSE Age("nan", 0, <<>>)

\* bidsify_workflow: with a participants file, the age is chosen, the row of
\* the subject is made, and `data.columns` is asked of the DICOM header, which
\* has no such attribute: the file is not written
ParticipantsUpdate ==
    /\ entry = "bidsify_workflow" /\ pc = "participants"
    /\ IF tsv.kind = "no file"
       THEN pc' = "done" /\ UNCHANGED <<age, outcome>>
       ELSE /\ age' = SelectAge(inputs, FALSE)
            /\ outcome' = Raised("AttributeError", <<>>)
            /\ pc' = "raised"
    /\ UNCHANGED <<datasetVars, entry, child, streamed, inputs, executed, dirs, tsv>>

\* main: with a participants file, the age is chosen, and pd.concat is given
\* participant_df, a name that has no value yet: the file is not written
MainParticipants ==
    /\ entry = "main" /\ pc = "participants"
    /\ IF tsv.kind = "no file"
       THEN pc' = "done" /\ UNCHANGED <<age, outcome>>
       ELSE /\ age' = SelectAge(inputs, TRUE)
            /\ outcome' = Raised(IF age'.kind = "AttributeError"
                                 THEN "AttributeError" ELSE "NameError", <<>>)
            /\ pc' = "raised"
    /\ UNCHANGED <<datasetVars, entry, child, streamed, inputs, executed, dirs, tsv>>

InitParticipants ==
    /\ NoDataset
    /\ entry \in {"bidsify_workflow", "main"}
    /\ child = None /\ streamed = <<>> /\ outcome = Running
    /\ inputs \in
           [PatientAge : {<<>>, <<"0", "3", "4", "Y">>, <<"3", "4">>,
                          <<"0", "0", "6", "M">>, <<"Y">>},
            PatientBirthDate : {JsonNull, 1},
            StudyDate : {JsonNull, 12000}]
    /\ executed = <<>> /\ dirs = {}
    /\ age = Age("unset", 0, <<>>)
    /\ tsv \in {Age("no file", 0, <<>>), Age("nan", 0, <<>>), Age("int", 30, <<>>)}
    /\ pc = "participants"

NextParticipants ==
    \/ ParticipantsUpdate
    \/ MainParticipants

SpecParticipants == InitParticipants /\ [][NextParticipants]_vars

-----------------------------------------------------------------------------
(* complete_fmap_jsons on one group of field maps: the field maps of       *)
(* acquisition func and direction AP of a subject with the functional      *)
(* scans of two sessions, and a diffusion scan.                            *)

\* the most files of the dataset
MaxGroup == 3

InitFmap ==
    /\ entry = "run"
    /\ overwrite = TRUE
    /\ layout \in ListsOver({FmapFile("01", "1", "func", "1"),
                             FmapFile("01", "1", "func", "2"),
                             FuncFile("01", "1"), FuncFile("01", "2"),
                             DwiFile("01", "1")}, MaxGroup)
    /\ \E t \in Ranks(Len(layout)) : \E eesKind \in {"value", "null"} :
          disk = [i \in 1..Len(layout) |-> Sidecar(layout[i], t[i], eesKind, {})]
    /\ disk0 = disk
    /\ ses \in {None, "1"}
    /\ sidx = 1 /\ k = 0 /\ niftis = <<>> /\ runNo = 1
    /\ written = {} /\ assigned = <<>>
    /\ fmap_nifti = 0 /\ intended_for = None
    /\ pc = StartPc(entry)
    /\ NoTools

SpecFmap == InitFmap /\ [][NextRun]_vars

-----------------------------------------------------------------------------
(* What the claims speak of.                                               *)

Datatypes == {"func", "fmap", "dwi"}

Datatype(n) == get_entities(n)["datatype"]
SessionOf(n) == IF Has(get_entities(n), "session") THEN get_entities(n)["session"] ELSE None

\* the paths that name file n, under any session and datatype directory
PathsOf(n) ==
    {OpJoin(s, dt, Filename(get_entities(n))) : s \in Sessions \cup {None}, dt \in Datatypes}

\* file n is listed in the list lst of paths
Listed(n, lst) == \E i \in 1..Len(lst) : lst[i] \in PathsOf(n)

\* the path of file n relative to its subject's directory
OwnPath(n) == OpJoin(SessionOf(n), Datatype(n), Filename(get_entities(n)))

\* the files acquired at time t
Bucket(ns, t) == {n \in Range(ns) : AcqTime(n) = t}

\* field map m has the entities of field map f, run aside
Closes(f, m) ==
    /\ Datatype(m) = "fmap"
    /\ \A x \in DOMAIN get_entities(f) \ {"run"} :
          Has(get_entities(m), x) /\ get_entities(m)[x] = get_entities(f)[x]

\* the times, later than f's, of the buckets of field maps that close f
ClosingTimes(ns, f) ==
    {t \in {AcqTime(n) : n \in Range(ns)} :
        /\ t > AcqTime(f)
        /\ \A m \in Bucket(ns, t) : Datatype(m) = "fmap"
        /\ \E m \in Bucket(ns, t) : Closes(f, m)}

\* n is a scan f may be intended for, by datatype
Compatible(f, n) ==
    /\ Datatype(n) # "fmap"
    /\ Has(get_entities(f), "acquisition") => get_entities(f)["acquisition"] = Datatype(n)

-----------------------------------------------------------------------------
(* C2: every entry listed in IntendedFor(F) was acquired strictly later    *)
(* than F; a candidate acquired at F's time or earlier, F included, is     *)
(* never listed.                                                           *)
C2_OnlyLaterListed ==
    pc = "returned" =>
        /\ \A i \in 1..Len(intended_for) : \E n \in Range(niftis) :
              intended_for[i] \in PathsOf(n) /\ AcqTime(n) > AcqTime(fmap_nifti)
        /\ \A n \in Range(niftis) :
              AcqTime(n) <= AcqTime(fmap_nifti) => ~Listed(n, intended_for)

\* a scan acquired with F and one before it are left out, a later one listed
C2_Witness ==
    /\ pc = "returned"
    /\ intended_for # <<>>
    /\ \E n \in Range(niftis) :
          n # fmap_nifti /\ Datatype(n) # "fmap" /\ AcqTime(n) <= AcqTime(fmap_nifti)


-----------------------------------------------------------------------------
(* C1: the walk ends at the first later bucket of field maps that holds a  *)
(* member equal to F on every entity but run: no entry acquired at or      *)
(* after that time is listed, and every compatible scan acquired after F   *)
(* and before that time is listed.                                         *)
C1_WindowClosedByNextFmap ==
    pc = "returned" =>
        \A n \in Range(niftis) :
            /\ (\E c \in ClosingTimes(niftis, fmap_nifti) : AcqTime(n) >= c)
                  => ~Listed(n, intended_for)
            /\ (/\ Compatible(fmap_nifti, n)
                /\ AcqTime(n) > AcqTime(fmap_nifti)
                /\ \A c \in ClosingTimes(niftis, fmap_nifti) : AcqTime(n) < c)
                  => Listed(n, intended_for)

-----------------------------------------------------------------------------
(* C3: when F has an acquisition entity, every entry listed in             *)
(* IntendedFor(F) has F's acquisition label as its datatype, and a scan of *)
(* that datatype acquired after a bucket of another datatype is still      *)
(* listed (the walk skips that bucket and goes on).                        *)
C3_ListedDatatypeIsAcquisition ==
    (pc = "returned" /\ Has(get_entities(fmap_nifti), "acquisition")) =>
        /\ \A n \in Range(niftis) :
              Listed(n, intended_for)
                  => Datatype(n) = get_entities(fmap_nifti)["acquisition"]
        /\ \A n, m \in Range(niftis) :
              (/\ AcqTime(fmap_nifti) < AcqTime(m) /\ AcqTime(m) < AcqTime(n)
               /\ Datatype(m) \notin {"fmap", get_entities(fmap_nifti)["acquisition"]}
               /\ Datatype(n) = get_entities(fmap_nifti)["acquisition"]
               /\ \A x \in Range(niftis) :
                     (AcqTime(x) > AcqTime(fmap_nifti) /\ AcqTime(x) <= AcqTime(n))
                         => Datatype(x) # "fmap")
                  => Listed(n, intended_for)

-----------------------------------------------------------------------------
(* C9: IntendedFor(F) holds, for every member of a qualifying bucket, the  *)
(* path built from that member's own session, datatype and file name: each *)
(* listed path is the own path of a candidate, and each listed candidate   *)
(* is listed under its own path.                                           *)
C9_PathFromOwnEntities ==
    pc = "returned" =>
        /\ \A i \in 1..Len(intended_for) :
              \E n \in Range(niftis) : intended_for[i] = OwnPath(n)
        /\ \A n \in Range(niftis) :
              Listed(n, intended_for) => InSeq(OwnPath(n), intended_for)

-----------------------------------------------------------------------------
(* C10: intended_for_gen returns the same list for every order of the same *)
(* candidate files.                                                        *)
Orders(ns) == {p \in [1..Len(ns) -> Range(ns)] : Injective(p)}

C10_OrderOfIndexIrrelevant ==
    pc = "returned" =>
        \A p \in Orders(niftis) :
            intended_for_gen(p, fmap_nifti) = [raised |-> FALSE, value |-> intended_for]


-----------------------------------------------------------------------------
(* What the claims about complete_jsons speak of.                          *)

CompletedKeys == {"TotalReadoutTime", "TaskName", "IntendedFor"}

\* the files the loop of this run reached, the one that raised included
Reached == DOMAIN assigned

\* the body raised on file n
RaisedOn(n) == pc = "raised" /\ niftis[k] = n

\* the readout-time backfill raised on n (EffectiveEchoSpacing without a
\* value): the documented fatal error
MissingField(n) == ReadoutCond(disk0[n]) /\ ReadoutRaises(disk0[n])

\* the candidate files of field map f: what layout.get returned for its subject
Candidates(f) == LayoutGet(get_entities(f)["subject"], ses)

\* no compatible scan was acquired after f and before a closing bucket
NoLaterCompatibleScan(f) ==
    \A n \in Range(Candidates(f)) :
        (AcqTime(n) > AcqTime(f) /\ Compatible(f, n))
            => \E c \in ClosingTimes(Candidates(f), f) : c < AcqTime(n)

-----------------------------------------------------------------------------
(* C4: every entry listed in the IntendedFor that complete assigned to a   *)
(* field map is of the field map's subject and of its session.             *)
C4_SameSubjectAndSession ==
    \A f \in Reached :
        ("IntendedFor" \in assigned[f] /\ f \in written) =>
            \A n \in 1..Len(layout) :
                Listed(n, disk[f]["IntendedFor"]) =>
                    /\ get_entities(n)["subject"] = get_entities(f)["subject"]
                    /\ SessionOf(n) = SessionOf(f)

-----------------------------------------------------------------------------
(* C5: a second run with overwrite=false, on the dataset the first run     *)
(* left, writes no sidecar.                                                *)
C5_SecondRunWritesNothing ==
    (runNo = 2 /\ ~overwrite) => written = {}

\* the second run is over, and passed a file the first run had completed
C5_Witness ==
    /\ runNo = 2 /\ ~overwrite /\ pc = "done" /\ entry = "complete_jsons"
    /\ \E n \in Reached :
          /\ "TaskName" \in DOMAIN disk[n] /\ disk[n]["TaskName"] = "rest"
          /\ "TotalReadoutTime" \in DOMAIN disk[n] /\ disk[n]["TotalReadoutTime"] # 1
    /\ \E n \in Reached :
          "IntendedFor" \in DOMAIN disk[n] /\ disk[n]["IntendedFor"] # <<<<"old">>>>

-----------------------------------------------------------------------------
(* C6: a sidecar is rewritten in a run if and only if a field was assigned *)
(* for its file in that run, and every assigned field is then on disk (a   *)
(* file on which the loop body raised aside).                              *)
C6_RewrittenIffAssigned ==
    \A n \in Reached : ~RaisedOn(n) =>
        /\ n \in written <=> assigned[n] # {}
        /\ \A key \in assigned[n] : key \in DOMAIN disk[n]

-----------------------------------------------------------------------------
(* C7: with overwrite=false no TotalReadoutTime, TaskName or IntendedFor   *)
(* that a sidecar already has changes; with overwrite=true each of them is *)
(* reassigned for every file the loop reaches whose enabling condition     *)
(* holds, TaskName to the task entity (a file on which the readout-time    *)
(* backfill raised its documented error aside).                            *)
C7_OverwriteCondition ==
    /\ ~overwrite =>
          \A n \in 1..Len(layout) : \A key \in CompletedKeys :
              key \in DOMAIN disk0[n] =>
                  key \in DOMAIN disk[n] /\ disk[n][key] = disk0[n][key]
    /\ overwrite =>
          \A n \in Reached : ~MissingField(n) =>
              /\ "EffectiveEchoSpacing" \in DOMAIN disk0[n] =>
                    /\ "TotalReadoutTime" \in assigned[n] /\ n \in written
                    /\ disk[n]["TotalReadoutTime"] = ReadoutTime(disk0[n])
              /\ Has(get_entities(n), "task") =>
                    /\ "TaskName" \in assigned[n] /\ n \in written
                    /\ disk[n]["TaskName"] = get_entities(n)["task"]
              /\ Datatype(n) = "fmap" =>
                    "IntendedFor" \in assigned[n] /\ n \in written

-----------------------------------------------------------------------------
(* C8: a field map with no later compatible scan, whose IntendedFor is to  *)
(* be assigned, gets IntendedFor = [] and the run does not fail on it.     *)
C8_NoLaterScanGivesEmptyList ==
    \A f \in Reached :
        (/\ Datatype(f) = "fmap"
         /\ overwrite \/ "IntendedFor" \notin DOMAIN disk0[f]
         /\ ~MissingField(f)
         /\ NoLaterCompatibleScan(f))
            => /\ ~RaisedOn(f)
               /\ "IntendedFor" \in DOMAIN disk[f]
               /\ disk[f]["IntendedFor"] = <<>>

-----------------------------------------------------------------------------
(* C11: a file whose sidecar has no EffectiveEchoSpacing is passed over by *)
(* the readout-time backfill without error and gets no TotalReadoutTime;   *)
(* the backfill raises only on a sidecar that has the key, without a       *)
(* value; and once it raised, no later file of the list is completed.      *)

\* the readout-time backfill raised on file n
ReadoutRaisedOn(n) ==
    RaisedOn(n) /\ (entry = "complete_jsons" => MissingField(n))

C11_BackfillOnlyWithEchoSpacing ==
    /\ \A n \in Reached :
          /\ "EffectiveEchoSpacing" \notin DOMAIN disk0[n] =>
                /\ ~ReadoutRaisedOn(n)
                /\ "TotalReadoutTime" \notin assigned[n]
          /\ ReadoutRaisedOn(n) =>
                /\ "EffectiveEchoSpacing" \in DOMAIN disk0[n]
                /\ disk0[n]["EffectiveEchoSpacing"] = JsonNull
    /\ pc = "raised" =>
          \A j \in (k + 1)..Len(niftis) :
              niftis[j] \in Reached => "TotalReadoutTime" \notin assigned[niftis[j]]

-----------------------------------------------------------------------------
(* C12: the TotalReadoutTime written for a file is EffectiveEchoSpacing    *)
(* times (effectiveLines - 1), effectiveLines being the image extent along *)
(* the axis named by the first character of PhaseEncodingDirection (i 0,   *)
(* j 1, k 2) integer-divided by ParallelReductionFactorInPlane, 1 when     *)
(* absent.                                                                 *)

Axis(ped) == CASE Head(ped) = "i" -> 0 [] Head(ped) = "j" -> 1 [] Head(ped) = "k" -> 2

EffectiveLines(data) ==
    LET factor == IF "ParallelReductionFactorInPlane" \in DOMAIN data
                  THEN data["ParallelReductionFactorInPlane"] ELSE 1
    IN  Shape[Axis(data["PhaseEncodingDirection"]) + 1] \div factor

C12_ReadoutTimeFormula ==
    \A n \in Reached :
        ("TotalReadoutTime" \in assigned[n] /\ n \in written) =>
            disk[n]["TotalReadoutTime"]
                = disk0[n]["EffectiveEchoSpacing"] * (EffectiveLines(disk0[n]) - 1)

\* TotalReadoutTime was written from direction j-, factor 2 and spacing 7
C12_Witness ==
    \E n \in written :
        /\ "TotalReadoutTime" \in assigned[n]
        /\ disk0[n]["PhaseEncodingDirection"] = <<"j", "-">>
        /\ "ParallelReductionFactorInPlane" \in DOMAIN disk0[n]
        /\ disk0[n]["ParallelReductionFactorInPlane"] = 2
        /\ disk[n]["TotalReadoutTime"] = 7 * 47

-----------------------------------------------------------------------------
(* C13: every key of a sidecar the pruning pass rewrote is a member of the *)
(* allow-list.                                                             *)
C13_OnlyAllowListedKeys ==
    \A n \in written : DOMAIN disk[n] \subseteq KEEP_KEYS

-----------------------------------------------------------------------------
(* C14: the pruning pass is idempotent: a second pass over the sidecars    *)
(* the first one wrote writes each of them as it was.                      *)
C14_PruneIdempotent ==
    runNo = 2 => \A n \in written : disk[n] = disk0[n]

\* the second pass rewrote a sidecar that the first had changed
C14_Witness ==
    /\ runNo = 2 /\ pc = "done"
    /\ \E n \in written : AllowedKey \in DOMAIN disk[n] /\ disk[n][AllowedKey] = 2

-----------------------------------------------------------------------------
(* C15: after the pruning of a sidecar, each allow-listed key has the      *)
(* sidecar's own value if it had one, else the value of global.const if    *)
(* that has one, else it is absent.                                        *)
C15_LocalWinsOverGlobal ==
    \A n \in written : \A key \in KEEP_KEYS :
        IF key \in DOMAIN disk0[n]
        THEN key \in DOMAIN disk[n] /\ disk[n][key] = disk0[n][key]
        ELSE IF key \in DOMAIN GlobalKeys(disk0[n])
        THEN key \in DOMAIN disk[n] /\ disk[n][key] = GlobalKeys(disk0[n])[key]
        ELSE key \notin DOMAIN disk[n]

\* a sidecar with the key in both was pruned, and one with it in global.const only
C15_Witness ==
    /\ runNo = 1
    /\ \E n \in written :
          /\ AllowedKey \in DOMAIN disk0[n]
          /\ AllowedKey \in DOMAIN GlobalKeys(disk0[n])
    /\ \E n \in written :
          /\ AllowedKey \notin DOMAIN disk0[n]
          /\ AllowedKey \in DOMAIN GlobalKeys(disk0[n])

\* C16: a tool call raises an error when the exit status of the child is not
\* zero and returns normally only when it is zero
C16_RaisesIffNonZeroExit ==
    (entry \in ToolEntries /\ pc \in {"done", "raised"})
        => (outcome.kind = "raised" <=> child.status # 0)

\* C17: the error raised for a non-zero exit status carries the output the
\* child produced, the lines streamed during the call
C17_ErrorCarriesOutput ==
    (entry \in ToolEntries /\ pc = "raised" /\ outcome.error = "Exception")
        => outcome.captured = streamed \o child.pipe \o child.todo

\* C18: once a stage of the workflow has failed, no later stage executes, no
\* stage is executed again, and the scratch and provenance directories that
\* exist are not removed; and no stage ever executes twice
C18_FailFast ==
    [][/\ outcome.kind = "raised" => (executed' = executed /\ dirs' = dirs)
       /\ Injective(executed')
       /\ dirs \subseteq dirs']_vars

\* the converter failed with the work and provenance directories in place
C18_Witness ==
    /\ entry = "bidsify_workflow" /\ pc = "raised"
    /\ outcome.kind = "raised"
    /\ executed = <<"converter">>
    /\ dirs = {"work", "provenance"}

\* C19: a DICOM source that is a directory, a .tar or a .tar.gz archive is
\* accepted; a source file of another type, or a missing heuristic file, makes
\* the workflow raise the configuration error before a stage has executed
C19_InputValidation ==
    LET d == inputs.dicomdir
        h == inputs.heuristic
        archive ==
            \/ d.name[Len(d.name)] = "tar"
            \/ (Len(d.name) > 2 /\ d.name[Len(d.name) - 1] = "tar"
                                /\ d.name[Len(d.name)] = "gz")
        otherType == d.on_disk = "file" /\ ~archive
        missingHeuristic == ~h.is_file /\ (h.ext \/ entry = "main")
        rejected == outcome.kind = "raised" /\ executed = <<>>
    IN  (entry \in {"bidsify_workflow", "main"} /\ pc # "validate")
            => /\ (otherType \/ missingHeuristic)
                    => (rejected /\ outcome.error = "ValueError")
               /\ (d.on_disk = "dir" \/ (d.on_disk = "file" /\ archive))
                    /\ ~missingHeuristic
                    => ~rejected

\* C20: after the update of an existing participants.tsv, the age of the
\* subject is the integer of a PatientAge made of digits and Y; without
\* PatientAge and with both dates, the days between them over 365.25 to two
\* decimals; with neither, or with a PatientAge that is no integer, the cell
\* is the not-available marker
C20_AgeInParticipants ==
    LET digitsY == ParseInt(StripY(inputs.PatientAge)) # -1
        expected ==
            IF inputs.PatientAge # <<>>
            THEN IF digitsY
                 THEN Age("int", ParseInt(StripY(inputs.PatientAge)), <<>>)
                 ELSE Age("nan", 0, <<>>)
            ELSE IF inputs.PatientBirthDate # JsonNull
            THEN Age("float",
                     ((inputs.StudyDate - inputs.PatientBirthDate) * 800 + 1461)
                         \div 2922, <<>>)
            ELSE Age("nan", 0, <<>>)
        stated ==
            \/ inputs.PatientAge # <<>>
            \/ inputs.PatientBirthDate = JsonNull
            \/ inputs.StudyDate # JsonNull
    IN  (entry \in {"bidsify_workflow", "main"} /\ pc \in {"done", "raised"}
            /\ tsv.kind # "no file" /\ stated)
            => (age = expected /\ tsv = expected)

-----------------------------------------------------------------------------
(* C21: no field map is listed in a list intended_for_gen returns, also    *)
(* when a field map was acquired at the very time of a functional or       *)
(* diffusion scan: only func and dwi files are listed.                     *)
C21_NoFieldMapListed ==
    pc = "returned" =>
        \A n \in Range(niftis) : Listed(n, intended_for) => Datatype(n) # "fmap"

-----------------------------------------------------------------------------
(* C22: once complete_fmap_jsons has assigned IntendedFor to the field     *)
(* maps of a group (subject, acquisition, direction) that has a field map, *)
(* every scan of that acquisition type is listed once in the IntendedFor   *)
(* of one field map of the group and in no other: the field map of the     *)
(* greatest SeriesNumber not above the scan's, or of the smallest when     *)
(* there is none; also when two sidecars have the same SeriesNumber.       *)
C22_EachScanInOneFieldMap ==
    \A sid \in Range(Subs), a \in Range(Acquisitions), d \in Range(Dirs) :
        LET fm == Range(FmapJsons(sid, a, d))
            number(n) == disk[n]["SeriesNumber"]
            times(s, f) ==
                Cardinality({i \in 1..Len(disk[f]["IntendedFor"]) :
                                disk[f]["IntendedFor"][i] = Filename(layout[s])})
            before(s) == {g \in fm : number(g) <= number(s)}
            nearest(s, f) ==
                IF before(s) # {}
                THEN \A g \in before(s) : number(g) <= number(f)
                ELSE \A g \in fm : number(f) <= number(g)
        IN  (/\ fm # {}
             /\ \A f \in fm : f \in DOMAIN assigned /\ "IntendedFor" \in assigned[f])
                => \A s \in Range(DatJsons(sid, a)) :
                       \E f \in fm :
                           /\ times(s, f) = 1
                           /\ nearest(s, f)
                           /\ \A g \in fm \ {f} : times(s, g) = 0

====
